---- MODULE Spec2Model ----
(***************************************************************************)
(* Model of the chunked compression benchmark driver (src/main.rs).        *)
(*                                                                         *)
(* main parses the command line, reads the file's metadata, opens the     *)
(* file, reads it chunk by chunk, runs the twelve benchmark_<codec>        *)
(* functions on every chunk, merges their BenchmarkResults into one        *)
(* aggregate per codec and finally prints one table row per codec.         *)
(*                                                                         *)
(* The codec libraries, the clock and the file system are the environment: *)
(* a library call returns Ok or Err, the file has a length, a read         *)
(* returns a number of bytes or fails.  Only the length of a buffer is     *)
(* modelled, never its bytes.  An f64 is modelled by the exact rational    *)
(* it approximates (or +infinity); rounding is not modelled.               *)
(***************************************************************************)
EXTENDS Integers, Sequences, FiniteSets, TLC

VARIABLES
    args,            \* env::args() without args[0]; a token is a sequence of characters
    env,             \* the environment of one execution: file length, clock, library output
    pc,              \* position of main
    arg_index,       \* main: arg_index (1 = first argument after the program name)
    filename,        \* main: Option<String>, <<>> = None, <<t>> = Some(t)
    num_runs,        \* main: num_runs
    exit_code,       \* <<>> while running, <<c>> once the process has ended with code c
    stdout,          \* lines written to standard output
    stderr,          \* lines written to standard error
    original_size,   \* main: Option of metadata.len(), <<>> until the metadata is read
    file,            \* main: the open file, <<>> until opened, <<pos>> = bytes consumed
    chunk_number,    \* main: chunk_number
    bytes_read,      \* main: bytes_read = chunk.len() after truncate
    results,         \* main: the twelve *_results aggregates, by codec
    codec_idx,       \* main: which benchmark_<codec> call of lines 128-139 is next / active
    hpc,             \* position inside the active benchmark_<codec> call
    run,             \* benchmark_<codec>: the loop variable run (0-based)
    locals,          \* benchmark_<codec>: input_sizes, compressed_sizes, compress_times, decompress_times
    compress_time,   \* benchmark_<codec>: compress_time of the current run
    compressed_len,  \* benchmark_<codec>: compressed_len of the last compress call
    decompressed_len,\* benchmark_<codec>: decompressed_len of the last decompress call
    print_idx,       \* main: which print_results call of lines 153-164 is next
    parts            \* BenchmarkResults values still to be merged (merge specification only)

vars == <<args, env, pc, arg_index, filename, num_runs, exit_code, stdout, stderr,
          original_size, file, chunk_number, bytes_read, results, codec_idx, hpc, run,
          locals, compress_time, compressed_len, decompressed_len, print_idx, parts>>

---------------------------------------------------------------------------
(* Bounds of the model *)

\* longest argument vector (without the program name)
MaxArgs == 3
\* largest file: MaxFullChunks * CHUNK_SIZE + 1 bytes
MaxFullChunks == 1
\* reads that may return fewer bytes than asked for, per execution
MaxShortReads == 1
\* most BenchmarkResults values merged in the merge specification
MaxParts == 3
\* longest sequence of a BenchmarkResults value drawn as an input
MaxSamples == 2

---------------------------------------------------------------------------
(* Program constants *)

CHUNK_MB == 256
CHUNK_SIZE == CHUNK_MB * 1024 * 1024
\* 1024.0 * 1024.0 in print_results
MIB == 1048576

\* i32::MAX, the largest value of `original_size as i32` in benchmark_lz4
I32_MAX == 2147483647

\* x as i32 for a usize x below 2^32: values above i32::MAX wrap to x - 2^32
as_i32(x) == IF x <= I32_MAX THEN x ELSE ((x - I32_MAX) - I32_MAX) - 2

Min(a, b) == IF a <= b THEN a ELSE b

---------------------------------------------------------------------------
(* Rationals: the value of an f64, <<n, d>> with d > 0 in lowest terms,    *)
(* or Infinity.                                                            *)

RECURSIVE GCD(_, _)
GCD(a, b) == IF b = 0 THEN a ELSE GCD(b, a % b)

Norm(q) ==
    IF q[1] = 0 THEN <<0, 1>>
    ELSE LET g == GCD(q[1], q[2]) IN <<q[1] \div g, q[2] \div g>>

Infinity == <<1, 0>>
NaN == <<0, 0>>
Zero == <<0, 1>>
IsFinite(q) == q[2] > 0

\* x as f64, x a usize
AsF64(x) == <<x, 1>>

\* p + q
RatAdd(p, q) ==
    LET g == GCD(p[2], q[2])
    IN  Norm(<<p[1] * (q[2] \div g) + q[1] * (p[2] \div g), (p[2] \div g) * q[2]>>)

\* p * q, cancelling across before multiplying
RatMul(p, q) ==
    IF p[1] = 0 \/ q[1] = 0 THEN Zero
    ELSE LET g1 == GCD(p[1], q[2])
             g2 == GCD(q[1], p[2])
         IN  <<(p[1] \div g1) * (q[1] \div g2), (p[2] \div g2) * (q[2] \div g1)>>

\* p / q for finite p >= 0 and q >= 0, as IEEE 754 divides: x / 0 is +infinity for
\* x > 0 and 0 / 0 is NaN
RatDiv(p, q) ==
    IF q[1] = 0 THEN (IF p[1] = 0 THEN NaN ELSE Infinity)
    ELSE RatMul(p, <<q[2], q[1]>>)

\* p > 0
RatPositive(p) == p[1] > 0 /\ p[2] > 0

---------------------------------------------------------------------------
(* std::time::Duration: whole seconds and nanoseconds below one second.   *)

Duration(s, n) == [secs |-> s, nanos |-> n]

\* Duration::as_secs_f64
as_secs_f64(d) == RatAdd(AsF64(d.secs), Norm(<<d.nanos, 1000 * 1000 * 1000>>))

\* what Instant::elapsed can return for one phase of one run
Elapsed == {Duration(0, 0), Duration(0, 500000000)}

---------------------------------------------------------------------------
(* BenchmarkResults *)

\* BenchmarkResults::new
new == [input_sizes |-> <<>>, compressed_sizes |-> <<>>,
        compress_times |-> <<>>, decompress_times |-> <<>>]

\* merge that assigns the other's vectors instead of extending with them
merge_Replace(self, other) ==
    [input_sizes      |-> other.input_sizes,
     compressed_sizes |-> other.compressed_sizes,
     compress_times   |-> other.compress_times,
     decompress_times |-> other.decompress_times]

\* merge that puts the other's entries in front of the existing ones
merge_Prepend(self, other) ==
    [input_sizes      |-> other.input_sizes \o self.input_sizes,
     compressed_sizes |-> other.compressed_sizes \o self.compressed_sizes,
     compress_times   |-> other.compress_times \o self.compress_times,
     decompress_times |-> other.decompress_times \o self.decompress_times]

\* BenchmarkResults::merge: self.<field>.extend(other.<field>) for the four fields
merge(self, other) ==
    [input_sizes      |-> self.input_sizes \o other.input_sizes,
     compressed_sizes |-> self.compressed_sizes \o other.compressed_sizes,
     compress_times   |-> self.compress_times \o other.compress_times,
     decompress_times |-> self.decompress_times \o other.decompress_times]

\* iter().sum::<usize>()
RECURSIVE Sum(_)
Sum(s) == IF s = <<>> THEN 0 ELSE Head(s) + Sum(Tail(s))

\* iter().map(|d| d.as_secs_f64()).sum::<f64>()
RECURSIVE SumSecs(_)
SumSecs(s) == IF s = <<>> THEN Zero ELSE RatAdd(as_secs_f64(Head(s)), SumSecs(Tail(s)))

---------------------------------------------------------------------------
(* The twelve codecs, in the order main benchmarks and prints them.        *)

Codecs == <<"memcpy", "flate2", "snap", "lz4", "zstd_fastest", "zstd_balanced",
            "zstd_max", "xz2", "lzma_rs", "miniz_oxide", "lz4_flex", "libdeflate">>

CodecSet == {Codecs[i] : i \in DOMAIN Codecs}

NumCodecs == Len(Codecs)

\* the name main passes to print_results for each aggregate
PrintName(c) ==
    CASE c = "memcpy"        -> "memcpy"
      [] c = "flate2"        -> "flate2 (gzip)"
      [] c = "snap"          -> "snap (snappy)"
      [] c = "lz4"           -> "lz4"
      [] c = "zstd_fastest"  -> "zstd (level 1)"
      [] c = "zstd_balanced" -> "zstd (level 3)"
      [] c = "zstd_max"      -> "zstd (level 10)"
      [] c = "xz2"           -> "xz2 (lzma)"
      [] c = "lzma_rs"       -> "lzma-rs"
      [] c = "miniz_oxide"   -> "miniz_oxide"
      [] c = "lz4_flex"      -> "lz4_flex"
      [] c = "libdeflate"    -> "libdeflate"

---------------------------------------------------------------------------
(* Command-line tokens, as sequences of characters.                        *)

RUNS == <<"-", "-", "r", "u", "n", "s">>

Tokens == { RUNS,
            <<"-", "-", "v">>,
            <<"0">>,
            <<"2">>,
            <<"f">> }

\* arg.starts_with("--")
starts_with_dashes(t) == Len(t) >= 2 /\ t[1] = "-" /\ t[2] = "-"

Digits == <<"0", "1", "2", "3", "4", "5", "6", "7", "8", "9">>
IsDigit(ch) == \E i \in DOMAIN Digits : Digits[i] = ch
DigitValue(ch) == (CHOOSE i \in DOMAIN Digits : Digits[i] = ch) - 1

RECURSIVE DigitsValue(_, _)
DigitsValue(t, acc) ==
    IF t = <<>> THEN acc ELSE DigitsValue(Tail(t), acc * 10 + DigitValue(Head(t)))

\* str::parse::<usize>: an optional '+', then one or more decimal digits.
\* <<>> = Err, <<n>> = Ok(n)
parse(t) ==
    LET body == IF t # <<>> /\ Head(t) = "+" THEN Tail(t) ELSE t
    IN  IF body # <<>> /\ \A i \in DOMAIN body : IsDigit(body[i])
        THEN <<DigitsValue(body, 0)>>
        ELSE <<>>

---------------------------------------------------------------------------
(* The environment of one execution.                                       *)

FileLens == { q * CHUNK_SIZE + r : q \in 0..MaxFullChunks, r \in {0, 1} }

\* how well the libraries compress this file's data
Profiles == {"half", "expand"}

Envs == [file_len : FileLens, compress_elapsed : Elapsed,
         decompress_elapsed : Elapsed, profile : Profiles]

ArgVectors == UNION { [1..n -> Tokens] : n \in 0..MaxArgs }

---------------------------------------------------------------------------
(* Process exit and output.                                                *)

Usage == <<"Usage: {} [--runs <N>] <filename>">>

\* eprintln!(..) for every line of ls, then std::process::exit(code)
ExitWith(ls, code) ==
    /\ stderr' = stderr \o ls
    /\ exit_code' = <<code>>
    /\ pc' = "exited"

\* a panic (unwrap / expect on an Err): the message goes to standard error and the
\* process ends with status 101
Panic(msg) == ExitWith(<<msg>>, 101)

---------------------------------------------------------------------------
(* main, lines 36-82: argument parsing                                     *)

Init ==
    /\ args \in ArgVectors
    /\ env \in Envs
    /\ pc = "parse"
    /\ arg_index = 1
    /\ filename = <<>>
    /\ num_runs = 1
    /\ exit_code = <<>>
    /\ stdout = <<>>
    /\ stderr = <<>>
    /\ original_size = <<>>
    /\ file = <<>>
    /\ chunk_number = 0
    /\ bytes_read = 0
    /\ results = [c \in CodecSet |-> new]
    /\ codec_idx = 1
    /\ hpc = "Idle"
    /\ run = 0
    /\ locals = new
    /\ compress_time = Duration(0, 0)
    /\ compressed_len = 0
    /\ decompressed_len = 0
    /\ print_idx = 1
    /\ parts = <<>>

benchVars == <<codec_idx, hpc, run, locals, compress_time, compressed_len, decompressed_len>>
fileVars == <<original_size, file, chunk_number, bytes_read>>

\* ParseRunsOption without the `num_runs == 0` check of lines 56-59
ParseRunsOption_NoZeroCheck ==
    /\ pc = "parse"
    /\ arg_index <= Len(args)
    /\ args[arg_index] = RUNS
    /\ IF arg_index + 1 > Len(args)
       THEN /\ ExitWith(<<<<"Error: --runs requires a value">>, Usage>>, 1)
            /\ UNCHANGED <<num_runs, arg_index>>
       ELSE LET r == parse(args[arg_index + 1])
            IN  IF r = <<>>
                THEN /\ ExitWith(<<<<"Error: --runs value must be a number">>>>, 1)
                     /\ UNCHANGED <<num_runs, arg_index>>
                ELSE /\ num_runs' = r[1]
                     /\ arg_index' = arg_index + 2
                     /\ UNCHANGED <<pc, exit_code, stderr>>
    /\ UNCHANGED <<args, env, filename, stdout, results, print_idx, parts>>
    /\ UNCHANGED fileVars
    /\ UNCHANGED benchVars

\* match arm "--runs", lines 46-61
ParseRunsOption ==
    /\ pc = "parse"
    /\ arg_index <= Len(args)
    /\ args[arg_index] = RUNS
    /\ IF arg_index + 1 > Len(args)
       THEN /\ ExitWith(<<<<"Error: --runs requires a value">>, Usage>>, 1)
            /\ UNCHANGED <<num_runs, arg_index>>
       ELSE LET r == parse(args[arg_index + 1])
            IN  IF r = <<>>
                THEN /\ ExitWith(<<<<"Error: --runs value must be a number">>>>, 1)
                     /\ UNCHANGED <<num_runs, arg_index>>
                ELSE IF r[1] = 0
                THEN /\ ExitWith(<<<<"Error: --runs value must be at least 1">>>>, 1)
                     /\ num_runs' = r[1]
                     /\ UNCHANGED arg_index
                ELSE /\ num_runs' = r[1]
                     /\ arg_index' = arg_index + 2
                     /\ UNCHANGED <<pc, exit_code, stderr>>
    /\ UNCHANGED <<args, env, filename, stdout, results, print_idx, parts>>
    /\ UNCHANGED fileVars
    /\ UNCHANGED benchVars

\* ParseFilename without the `filename.is_some()` check of lines 63-67: the last
\* filename wins
ParseFilename_KeepLast ==
    /\ pc = "parse"
    /\ arg_index <= Len(args)
    /\ args[arg_index] # RUNS
    /\ ~starts_with_dashes(args[arg_index])
    /\ filename' = <<args[arg_index]>>
    /\ arg_index' = arg_index + 1
    /\ UNCHANGED <<pc, exit_code, stderr>>
    /\ UNCHANGED <<args, env, num_runs, stdout, results, print_idx, parts>>
    /\ UNCHANGED fileVars
    /\ UNCHANGED benchVars

\* match arm `arg if !arg.starts_with("--")`, lines 62-70
ParseFilename ==
    /\ pc = "parse"
    /\ arg_index <= Len(args)
    /\ args[arg_index] # RUNS
    /\ ~starts_with_dashes(args[arg_index])
    /\ IF filename # <<>>
       THEN /\ ExitWith(<<<<"Error: multiple filenames provided">>, Usage>>, 1)
            /\ UNCHANGED <<filename, arg_index>>
       ELSE /\ filename' = <<args[arg_index]>>
            /\ arg_index' = arg_index + 1
            /\ UNCHANGED <<pc, exit_code, stderr>>
    /\ UNCHANGED <<args, env, num_runs, stdout, results, print_idx, parts>>
    /\ UNCHANGED fileVars
    /\ UNCHANGED benchVars

\* match arm `_`, lines 71-75
ParseUnknownOption ==
    /\ pc = "parse"
    /\ arg_index <= Len(args)
    /\ args[arg_index] # RUNS
    /\ starts_with_dashes(args[arg_index])
    /\ ExitWith(<<<<"Error: unknown option", args[arg_index]>>, Usage>>, 1)
    /\ UNCHANGED <<args, env, arg_index, filename, num_runs, stdout, results, print_idx, parts>>
    /\ UNCHANGED fileVars
    /\ UNCHANGED benchVars

\* end of the while loop and filename.unwrap_or_else, lines 44 and 79-82
ParseDone ==
    /\ pc = "parse"
    /\ arg_index > Len(args)
    /\ IF filename = <<>>
       THEN ExitWith(<<Usage>>, 1)
       ELSE /\ pc' = "metadata"
            /\ UNCHANGED <<exit_code, stderr>>
    /\ UNCHANGED <<args, env, arg_index, filename, num_runs, stdout, results, print_idx, parts>>
    /\ UNCHANGED fileVars
    /\ UNCHANGED benchVars

---------------------------------------------------------------------------
(* main, lines 84-125: metadata, open, the chunk loop                      *)

\* fs::metadata(&filename).expect(..) and the header lines, lines 85-95
ReadMetadata ==
    /\ pc = "metadata"
    /\ \/ /\ original_size' = <<env.file_len>>
          /\ stdout' = stdout \o << <<"File:", filename[1]>>,
                                    <<"Original size:", env.file_len>>,
                                    <<"Number of runs per algorithm:", num_runs>>,
                                    <<"">> >>
          /\ pc' = "open"
          /\ UNCHANGED <<exit_code, stderr>>
       \/ /\ Panic(<<"Failed to read file metadata">>)
          /\ UNCHANGED <<original_size, stdout>>
    /\ UNCHANGED <<args, env, arg_index, filename, num_runs, file, chunk_number, bytes_read,
                   results, print_idx, parts>>
    /\ UNCHANGED benchVars

\* fs::File::open(&filename).expect(..) and the twelve BenchmarkResults::new(), lines 98-112
OpenFile ==
    /\ pc = "open"
    /\ \/ /\ file' = <<0>>
          /\ chunk_number' = 0
          /\ results' = [c \in CodecSet |-> new]
          /\ pc' = "read"
          /\ UNCHANGED <<exit_code, stderr>>
       \/ /\ Panic(<<"Failed to open file">>)
          /\ UNCHANGED <<file, chunk_number, results>>
    /\ UNCHANGED <<args, env, arg_index, filename, num_runs, stdout, original_size,
                   bytes_read, print_idx, parts>>
    /\ UNCHANGED benchVars

\* a read into a buffer that grows to hold all the rest of the file
ReadSizes_Unbounded(remaining) == {remaining}

\* what file.read(&mut chunk) can return as Ok(n) with `remaining` bytes left in the
\* file: as many bytes as fit the buffer, or (for the first MaxShortReads reads) fewer
ReadSizes(remaining) ==
    LET full == Min(CHUNK_SIZE, remaining)
    IN  {full} \cup (IF full > 1 /\ chunk_number < MaxShortReads THEN {1} ELSE {})

\* ReadChunk with the break of lines 118-120 taken only after a first chunk
\* (`bytes_read == 0 && chunk_number > 0`): an empty file yields one empty chunk
ReadChunk_EmptyFirst ==
    /\ pc = "read"
    /\ \/ \E n \in ReadSizes(env.file_len - file[1]) :
             IF n = 0 /\ chunk_number > 0
             THEN /\ stdout' = stdout \o << <<"">>, <<"| Algorithm | Ratio | Compress (MiB/s) | Decompress (MiB/s) |">>,
                                            <<"| --- | --- | --- | --- |">> >>
                  /\ print_idx' = 1
                  /\ pc' = "print"
                  /\ UNCHANGED <<file, chunk_number, bytes_read, codec_idx, hpc, exit_code, stderr>>
             ELSE /\ bytes_read' = n
                  /\ file' = <<file[1] + n>>
                  /\ chunk_number' = chunk_number + 1
                  /\ stdout' = Append(stdout, <<"Processing chunk", chunk_number + 1, n>>)
                  /\ codec_idx' = 1
                  /\ hpc' = "Idle"
                  /\ pc' = "bench"
                  /\ UNCHANGED <<print_idx, exit_code, stderr>>
       \/ /\ Panic(<<"Failed to read chunk">>)
          /\ UNCHANGED <<file, chunk_number, bytes_read, codec_idx, hpc, stdout, print_idx>>
    /\ UNCHANGED <<args, env, arg_index, filename, num_runs, original_size, results, parts>>
    /\ UNCHANGED <<run, locals, compress_time, compressed_len, decompressed_len>>

\* one iteration of the loop head, lines 115-125; on a zero-length read the loop is left
\* and the table header is printed, lines 118-120 and 142-150
ReadChunk ==
    /\ pc = "read"
    /\ \/ \E n \in ReadSizes(env.file_len - file[1]) :
             IF n = 0
             THEN /\ stdout' = stdout \o << <<"">>, <<"| Algorithm | Ratio | Compress (MiB/s) | Decompress (MiB/s) |">>,
                                            <<"| --- | --- | --- | --- |">> >>
                  /\ print_idx' = 1
                  /\ pc' = "print"
                  /\ UNCHANGED <<file, chunk_number, bytes_read, codec_idx, hpc, exit_code, stderr>>
             ELSE /\ bytes_read' = n
                  /\ file' = <<file[1] + n>>
                  /\ chunk_number' = chunk_number + 1
                  /\ stdout' = Append(stdout, <<"Processing chunk", chunk_number + 1, n>>)
                  /\ codec_idx' = 1
                  /\ hpc' = "Idle"
                  /\ pc' = "bench"
                  /\ UNCHANGED <<print_idx, exit_code, stderr>>
       \/ /\ Panic(<<"Failed to read chunk">>)
          /\ UNCHANGED <<file, chunk_number, bytes_read, codec_idx, hpc, stdout, print_idx>>
    /\ UNCHANGED <<args, env, arg_index, filename, num_runs, original_size, results, parts>>
    /\ UNCHANGED <<run, locals, compress_time, compressed_len, decompressed_len>>

---------------------------------------------------------------------------
(* benchmark_<codec>, lines 167-867.  The twelve functions share one       *)
(* shape: prologue, one warm-up cycle, num_runs timed runs, return.        *)
(* benchmark_memcpy copies with ptr::copy_nonoverlapping and cannot fail;  *)
(* the others call a library and unwrap its Result.                        *)

Codec == Codecs[codec_idx]

\* a copy that records the length of a padded destination buffer
MemcpyCompressedLen_Padded(len) == len + 1024

\* what benchmark_memcpy pushes as compressed size: compressed_sizes.push(black_box(len))
MemcpyCompressedLen(len) == len

\* the length Ok(n) a library's compress call returns for `len` input bytes
LibCompressedLen(len) ==
    CASE env.profile = "half"   -> (len + 1) \div 2
      [] env.profile = "expand" -> len + 16

\* the lengths Ok(n) a library's decompress call can return for a chunk of `len` bytes
LibDecompressedLens(len) == {len, len - 1}

UnwrapPanic(c, call) == Panic(<<"called Result::unwrap() on an Err value", c, call>>)

\* entry of benchmark_<codec>: the "Starting benchmark" line, the four empty vectors and
\* the buffers (lines 168-182, 251-267, 320-338, 383-398, ...)
StartBenchmark ==
    /\ pc = "bench"
    /\ hpc = "Idle"
    /\ codec_idx <= NumCodecs
    /\ locals' = new
    /\ stdout' = Append(stdout, IF Codec = "memcpy" THEN <<"Preparing buffers", Codec>>
                                ELSE <<"Starting benchmark", Codec>>)
    /\ hpc' = "WarmingUp"
    /\ UNCHANGED <<args, env, pc, arg_index, filename, num_runs, exit_code, stderr, results,
                   codec_idx, run, compress_time, compressed_len, decompressed_len,
                   print_idx, parts>>
    /\ UNCHANGED fileVars

\* LoopHead for the inclusive range 0..=num_runs
LoopHead_Inclusive(done) == IF done <= num_runs THEN "RunCompress" ELSE "Done"

\* where the for loop goes after `done` completed iterations
LoopHead(done) == IF done < num_runs THEN "RunCompress" ELSE "Done"

\* the warm-up run (lines 184-190, 269-277, 340-346, 400-410, ...): one compress and one
\* decompress whose results are only passed to black_box
WarmUp ==
    /\ pc = "bench"
    /\ hpc = "WarmingUp"
    /\ \/ /\ Codec = "memcpy"
          /\ stdout' = Append(stdout, <<"Starting benchmark", Codec, num_runs>>)
          /\ run' = 0
          /\ hpc' = LoopHead(0)
          /\ UNCHANGED <<compressed_len, decompressed_len, pc, exit_code, stderr>>
       \/ /\ Codec # "memcpy"
          /\ \E d \in LibDecompressedLens(bytes_read) :
                /\ compressed_len' = LibCompressedLen(bytes_read)
                /\ decompressed_len' = d
          /\ run' = 0
          /\ hpc' = LoopHead(0)
          /\ UNCHANGED <<stdout, pc, exit_code, stderr>>
       \/ /\ Codec # "memcpy"
          /\ UnwrapPanic(Codec, "warm-up compress")
          /\ UNCHANGED <<stdout, run, hpc, compressed_len, decompressed_len>>
       \/ /\ Codec # "memcpy"
          /\ compressed_len' = LibCompressedLen(bytes_read)
          /\ UnwrapPanic(Codec, "warm-up decompress")
          /\ UNCHANGED <<stdout, run, hpc, decompressed_len>>
    /\ UNCHANGED <<args, env, arg_index, filename, num_runs, results, codec_idx, locals,
                   compress_time, print_idx, parts>>
    /\ UNCHANGED fileVars

\* first half of one iteration of `for run in 0..num_runs`: the timed compress call and,
\* for the library codecs, the three pushes that follow it (lines 281-292, 350-358,
\* 414-423, ...); benchmark_memcpy only times its copy here (lines 201-211)
RunCompress ==
    /\ pc = "bench"
    /\ hpc = "RunCompress"
    /\ \/ /\ Codec = "memcpy"
          /\ compress_time' = env.compress_elapsed
          /\ hpc' = "RunDecompress"
          /\ UNCHANGED <<locals, compressed_len, stdout, pc, exit_code, stderr>>
       \/ /\ Codec # "memcpy"
          /\ compress_time' = env.compress_elapsed
          /\ compressed_len' = LibCompressedLen(bytes_read)
          /\ locals' = [locals EXCEPT
                           !.compress_times = Append(@, env.compress_elapsed),
                           !.input_sizes = Append(@, bytes_read),
                           !.compressed_sizes = Append(@, LibCompressedLen(bytes_read))]
          /\ stdout' = Append(stdout, <<"Run: compressed", Codec, run + 1,
                                        LibCompressedLen(bytes_read)>>)
          /\ hpc' = "RunDecompress"
          /\ UNCHANGED <<pc, exit_code, stderr>>
       \/ /\ Codec # "memcpy"
          /\ UnwrapPanic(Codec, "compress")
          /\ UNCHANGED <<locals, compress_time, compressed_len, stdout, hpc>>
    /\ UNCHANGED <<args, env, arg_index, filename, num_runs, results, codec_idx, run,
                   decompressed_len, print_idx, parts>>
    /\ UNCHANGED fileVars

\* second half of the iteration: the timed decompress call, the push of its time and
\* black_box(decompressed_len) (lines 294-305, 360-369, 425-437, ...); benchmark_memcpy
\* times its copy back and pushes the four values of the run (lines 213-236)
RunDecompress ==
    /\ pc = "bench"
    /\ hpc = "RunDecompress"
    /\ \/ /\ Codec = "memcpy"
          /\ locals' = [locals EXCEPT
                           !.compress_times = Append(@, compress_time),
                           !.decompress_times = Append(@, env.decompress_elapsed),
                           !.input_sizes = Append(@, bytes_read),
                           !.compressed_sizes = Append(@, MemcpyCompressedLen(bytes_read))]
          /\ stdout' = Append(stdout, <<"Run", Codec, run + 1>>)
          /\ run' = run + 1
          /\ hpc' = LoopHead(run + 1)
          /\ UNCHANGED <<decompressed_len, pc, exit_code, stderr>>
       \/ /\ Codec # "memcpy"
          /\ \E d \in LibDecompressedLens(bytes_read) : decompressed_len' = d
          /\ locals' = [locals EXCEPT !.decompress_times = Append(@, env.decompress_elapsed)]
          /\ stdout' = Append(stdout, <<"Run: decompressed", Codec, run + 1>>)
          /\ run' = run + 1
          /\ hpc' = LoopHead(run + 1)
          /\ UNCHANGED <<pc, exit_code, stderr>>
       \/ /\ Codec # "memcpy"
          /\ UnwrapPanic(Codec, "decompress")
          /\ UNCHANGED <<locals, decompressed_len, stdout, run, hpc>>
    /\ UNCHANGED <<args, env, arg_index, filename, num_runs, results, codec_idx,
                   compress_time, compressed_len, print_idx, parts>>
    /\ UNCHANGED fileVars

\* ReturnBenchmark with the returned BenchmarkResults dropped instead of merged
ReturnBenchmark_NoMerge ==
    /\ pc = "bench"
    /\ hpc = "Done"
    /\ hpc' = "Idle"
    /\ IF codec_idx = NumCodecs
       THEN pc' = "read" /\ UNCHANGED codec_idx
       ELSE codec_idx' = codec_idx + 1 /\ UNCHANGED pc
    /\ UNCHANGED <<args, env, arg_index, filename, num_runs, exit_code, stdout, stderr,
                   results, run, locals, compress_time, compressed_len, decompressed_len,
                   print_idx, parts>>
    /\ UNCHANGED fileVars

\* return of benchmark_<codec> and <codec>_results.merge(..) in main (lines 239-244 and
\* 128-139); after the twelfth codec the loop goes back to its head
ReturnBenchmark ==
    /\ pc = "bench"
    /\ hpc = "Done"
    /\ results' = [results EXCEPT ![Codec] = merge(@, locals)]
    /\ hpc' = "Idle"
    /\ IF codec_idx = NumCodecs
       THEN pc' = "read" /\ UNCHANGED codec_idx
       ELSE codec_idx' = codec_idx + 1 /\ UNCHANGED pc
    /\ UNCHANGED <<args, env, arg_index, filename, num_runs, exit_code, stdout, stderr,
                   run, locals, compress_time, compressed_len, decompressed_len,
                   print_idx, parts>>
    /\ UNCHANGED fileVars

---------------------------------------------------------------------------
(* print_results, lines 869-913                                            *)

\* the guard with `&&` for `||`: only an aggregate with four empty vectors is skipped
no_results_All(r) ==
    /\ r.input_sizes = <<>>
    /\ r.compressed_sizes = <<>>
    /\ r.compress_times = <<>>
    /\ r.decompress_times = <<>>

\* the guard of lines 871-874
no_results(r) ==
    \/ r.input_sizes = <<>>
    \/ r.compressed_sizes = <<>>
    \/ r.compress_times = <<>>
    \/ r.decompress_times = <<>>

\* ratio with the quotient upside down
ratio_Inverted(r) ==
    LET total_input_size == AsF64(Sum(r.input_sizes))
        total_compressed_size == AsF64(Sum(r.compressed_sizes))
    IN  IF RatPositive(total_compressed_size)
        THEN RatDiv(total_compressed_size, total_input_size)
        ELSE Zero

\* lines 879-885
ratio(r) ==
    LET total_input_size == AsF64(Sum(r.input_sizes))
        total_compressed_size == AsF64(Sum(r.compressed_sizes))
    IN  IF RatPositive(total_compressed_size)
        THEN RatDiv(total_input_size, total_compressed_size)
        ELSE Zero

\* throughput in bytes per second: the division by 1024.0 * 1024.0 left out
throughput_Bytes(total_input_size, total_time) ==
    IF RatPositive(total_time)
    THEN RatDiv(total_input_size, total_time)
    ELSE Infinity

\* lines 892-896 and 903-907, for the total time of one phase
throughput(total_input_size, total_time) ==
    IF RatPositive(total_time)
    THEN RatDiv(RatDiv(total_input_size, AsF64(MIB)), total_time)
    ELSE Infinity

\* lines 887-907
compress_throughput(r) ==
    throughput(AsF64(Sum(r.input_sizes)), SumSecs(r.compress_times))

decompress_throughput(r) ==
    throughput(AsF64(Sum(r.input_sizes)), SumSecs(r.decompress_times))

\* the row of lines 909-912
Row(name, r) ==
    [name |-> name, ratio |-> ratio(r), compress |-> compress_throughput(r),
     decompress |-> decompress_throughput(r)]

Warning(name) == <<"Warning: No results to display for", name>>

\* one print_results(name, &<codec>_results) call of main, lines 153-164
PrintResults ==
    /\ pc = "print"
    /\ print_idx <= NumCodecs
    /\ LET c == Codecs[print_idx]
       IN  IF no_results(results[c])
           THEN /\ stderr' = Append(stderr, Warning(PrintName(c)))
                /\ UNCHANGED stdout
           ELSE /\ stdout' = Append(stdout, <<"row", Row(PrintName(c), results[c])>>)
                /\ UNCHANGED stderr
    /\ print_idx' = print_idx + 1
    /\ UNCHANGED <<args, env, pc, arg_index, filename, num_runs, exit_code, results, parts>>
    /\ UNCHANGED fileVars
    /\ UNCHANGED benchVars

\* main returns, line 165
MainReturn ==
    /\ pc = "print"
    /\ print_idx > NumCodecs
    /\ pc' = "exited"
    /\ exit_code' = <<0>>
    /\ UNCHANGED <<args, env, arg_index, filename, num_runs, stdout, stderr, results,
                   print_idx, parts>>
    /\ UNCHANGED fileVars
    /\ UNCHANGED benchVars

---------------------------------------------------------------------------

Next ==
    \/ ParseRunsOption
    \/ ParseFilename
    \/ ParseUnknownOption
    \/ ParseDone
    \/ ReadMetadata
    \/ OpenFile
    \/ ReadChunk
    \/ StartBenchmark
    \/ WarmUp
    \/ RunCompress
    \/ RunDecompress
    \/ ReturnBenchmark
    \/ PrintResults
    \/ MainReturn

Spec == Init /\ [][Next]_vars

---------------------------------------------------------------------------
(* BenchmarkResults::merge on its own: the values of `parts` are merged    *)
(* into one aggregate in an arbitrary order.                               *)

\* one sample: the four values one timed run records
Samples == { [input |-> 3, compressed |-> 2,
              compress |-> Duration(0, 500000000), decompress |-> Duration(0, 0)],
             [input |-> 1, compressed |-> 1,
              compress |-> Duration(0, 0), decompress |-> Duration(0, 500000000)] }

\* the BenchmarkResults of n runs that each recorded sample s
Repeat(s, n) ==
    [input_sizes      |-> [i \in 1..n |-> s.input],
     compressed_sizes |-> [i \in 1..n |-> s.compressed],
     compress_times   |-> [i \in 1..n |-> s.compress],
     decompress_times |-> [i \in 1..n |-> s.decompress]]

PartChoices == { Repeat(s, n) : s \in Samples, n \in 0..MaxSamples }

PartVectors == UNION { [1..n -> PartChoices] : n \in 0..MaxParts }

Remove(s, i) == [j \in 1..(Len(s) - 1) |-> IF j < i THEN s[j] ELSE s[j + 1]]

\* the accumulator of the merge specification
Acc == results["memcpy"]

InitMerge ==
    /\ \E ps \in PartVectors : env = [given |-> ps] /\ parts = ps
    /\ args = <<>>
    /\ pc = "merge"
    /\ arg_index = 1
    /\ filename = <<>>
    /\ num_runs = 1
    /\ exit_code = <<>>
    /\ stdout = <<>>
    /\ stderr = <<>>
    /\ original_size = <<>>
    /\ file = <<>>
    /\ chunk_number = 0
    /\ bytes_read = 0
    /\ results = [c \in CodecSet |-> new]
    /\ codec_idx = 1
    /\ hpc = "Idle"
    /\ run = 0
    /\ locals = new
    /\ compress_time = Duration(0, 0)
    /\ compressed_len = 0
    /\ decompressed_len = 0
    /\ print_idx = 1

\* memcpy_results.merge(part) for one of the parts still to be merged
MergePart ==
    /\ pc = "merge"
    /\ \E i \in DOMAIN parts :
          /\ results' = [results EXCEPT !["memcpy"] = merge(@, parts[i])]
          /\ parts' = Remove(parts, i)
    /\ UNCHANGED <<args, env, pc, arg_index, filename, num_runs, exit_code, stdout, stderr,
                   print_idx>>
    /\ UNCHANGED fileVars
    /\ UNCHANGED benchVars

NextMerge == MergePart

SpecMerge == InitMerge /\ [][NextMerge]_vars

---------------------------------------------------------------------------
(* print_results on its own: main's twelve print_results calls, started    *)
(* from arbitrary aggregates.                                              *)

SeqsUpTo(S, n) == UNION { [1..k -> S] : k \in 0..n }

PrintInputs ==
    [input_sizes      : SeqsUpTo({0, 3}, MaxSamples),
     compressed_sizes : SeqsUpTo({0, 2}, MaxSamples),
     compress_times   : SeqsUpTo(Elapsed, MaxSamples),
     decompress_times : SeqsUpTo(Elapsed, 1)]

\* the aggregate of the codecs at even positions
Reference == Repeat([input |-> 3, compressed |-> 2, compress |-> Duration(0, 500000000),
                     decompress |-> Duration(0, 500000000)], 1)

InitPrint ==
    /\ \E r \in PrintInputs :
          /\ env = [input |-> r]
          /\ results = [c \in CodecSet |->
                          IF \E i \in DOMAIN Codecs : Codecs[i] = c /\ i % 2 = 1
                          THEN r ELSE Reference]
    /\ args = <<>>
    /\ pc = "print"
    /\ arg_index = 1
    /\ filename = <<>>
    /\ num_runs = 1
    /\ exit_code = <<>>
    /\ stdout = <<>>
    /\ stderr = <<>>
    /\ original_size = <<>>
    /\ file = <<>>
    /\ chunk_number = 0
    /\ bytes_read = 0
    /\ codec_idx = 1
    /\ hpc = "Idle"
    /\ run = 0
    /\ locals = new
    /\ compress_time = Duration(0, 0)
    /\ compressed_len = 0
    /\ decompressed_len = 0
    /\ print_idx = 1
    /\ parts = <<>>

NextPrint == PrintResults \/ MainReturn

SpecPrint == InitPrint /\ [][NextPrint]_vars

---------------------------------------------------------------------------
(* Properties                                                              *)

\* the lines of standard error / standard output of a given kind
HasLine(out, kind) == \E i \in DOMAIN out : out[i][1] = kind

Rows == { stdout[i][2] : i \in { j \in DOMAIN stdout : stdout[j][1] = "row" } }

CodecFailed == HasLine(stderr, "called Result::unwrap() on an Err value")

IoFailed ==
    \/ HasLine(stderr, "Failed to read file metadata")
    \/ HasLine(stderr, "Failed to open file")
    \/ HasLine(stderr, "Failed to read chunk")

NothingBenchmarked ==
    /\ original_size = <<>>
    /\ file = <<>>
    /\ chunk_number = 0
    /\ hpc = "Idle"
    /\ \A c \in CodecSet : results[c] = new
    /\ stdout = <<>>

(* Shapes of the argument vector, read off the tokens alone. *)

NumberTokens == {<<"0">>, <<"2">>}
FlagTokens == {RUNS, <<"-", "-", "v">>}

\* token i is a filename: no flag, and not the value of a --runs before it
IsFilenameAt(i) == args[i] \notin FlagTokens /\ (i = 1 \/ args[i - 1] # RUNS)

ArgsNoFilename == \A i \in DOMAIN args : ~IsFilenameAt(i)
ArgsRunsLast == args # <<>> /\ args[Len(args)] = RUNS
ArgsRunsNotNumeric ==
    \E i \in DOMAIN args : i < Len(args) /\ args[i] = RUNS /\ args[i + 1] \notin NumberTokens
ArgsRunsZero ==
    \E i \in DOMAIN args : i < Len(args) /\ args[i] = RUNS /\ args[i + 1] = <<"0">>
ArgsManyFilenames ==
    \E i, j \in DOMAIN args : i < j /\ IsFilenameAt(i) /\ IsFilenameAt(j)
ArgsUnknownFlag == \E i \in DOMAIN args : args[i] \in FlagTokens \ {RUNS}

BadArgs ==
    \/ ArgsNoFilename
    \/ ArgsRunsLast
    \/ ArgsRunsNotNumeric
    \/ ArgsRunsZero
    \/ ArgsManyFilenames
    \/ ArgsUnknownFlag

\* C1: when a codec's compress or decompress call fails, the program does not crash:
\* it goes on (the codec is skipped with a warning, the later codecs are benchmarked)
\* and, if it has ended, it has ended normally.
C1_CodecFailureDoesNotCrash ==
    CodecFailed => (pc # "exited" \/ exit_code = <<0>>)

\* C2: in every timed run of a library codec, a decompressed length that differs from
\* the chunk length is surfaced as a failure: the run's sample is not recorded as if
\* the run had succeeded.
C2_LengthMismatchSurfaced ==
    (/\ pc = "bench"
     /\ Codec # "memcpy"
     /\ hpc \in {"RunCompress", "Done"}
     /\ run > 0
     /\ decompressed_len # bytes_read)
    => Len(locals.decompress_times) < run

\* C3: when --runs is given the value 0, the program ends with exit code 1 and nothing
\* is benchmarked: no metadata read, no file opened, no chunk read, no codec invoked,
\* nothing (no table) printed on standard output.
C3_RunsZeroRejected ==
    ArgsRunsZero =>
        /\ pc \in {"parse", "exited"}
        /\ pc = "parse" => (exit_code = <<>> /\ ENABLED Next)
        /\ pc = "exited" => exit_code = <<1>>
        /\ NothingBenchmarked

C3_Witness ==
    /\ ArgsRunsZero
    /\ pc = "exited"
    /\ exit_code = <<1>>
    /\ stderr = <<<<"Error: --runs value must be at least 1">>>>
    /\ filename # <<>>

\* C4: for every argument vector with no filename, --runs as last argument, a
\* non-numeric or zero --runs value, several filenames or an unknown -- flag, the
\* program ends during argument parsing with exit code 1, before the metadata is read
\* or the file is opened.
C4_BadArgsExitInParsing ==
    BadArgs =>
        /\ pc \in {"parse", "exited"}
        /\ pc = "parse" => (exit_code = <<>> /\ arg_index <= Len(args) + 1 /\ ENABLED Next)
        /\ pc = "exited" => (exit_code = <<1>> /\ stderr # <<>>)
        /\ original_size = <<>>
        /\ file = <<>>

C4_Witness ==
    /\ ArgsManyFilenames
    /\ ~ArgsUnknownFlag
    /\ ~ArgsRunsZero
    /\ ~ArgsRunsNotNumeric
    /\ ~ArgsRunsLast
    /\ pc = "exited"
    /\ exit_code = <<1>>
    /\ HasLine(stderr, "Error: multiple filenames provided")

\* C5: every exit caused by a command-line error (exit code 1) is accompanied by the
\* usage message on standard error.
C5_UsageOnEveryCliError ==
    exit_code = <<1>> => \E i \in DOMAIN stderr : stderr[i] = Usage

\* C6: when the metadata cannot be read, the file cannot be opened or a chunk read
\* fails, the program ends with exit code 1 and an error message, and no table row
\* is printed.
C6_IoErrorExitsWithCode1 ==
    IoFailed => (pc = "exited" /\ exit_code = <<1>> /\ Rows = {})

\* C7: a benchmark_<codec> invocation goes Idle -> WarmingUp -> Running(1) -> ... ->
\* Running(num_runs) -> Done: one warm-up cycle that records nothing, then the runs in
\* order, each compressing first and decompressing second, each run adding one entry to
\* each of the four vectors, and it returns exactly num_runs samples.
LocalLens ==
    <<Len(locals.input_sizes), Len(locals.compressed_sizes),
      Len(locals.compress_times), Len(locals.decompress_times)>>

C7_Positions ==
    pc = "bench" =>
        /\ hpc \in {"Idle", "WarmingUp", "RunCompress", "RunDecompress", "Done"}
        /\ hpc = "WarmingUp" => locals = new
        /\ hpc = "RunCompress" => (run < num_runs /\ LocalLens = <<run, run, run, run>>)
        /\ hpc = "RunDecompress" => (run < num_runs /\ LocalLens[4] = run)
        /\ hpc = "Done" =>
              (run = num_runs /\ LocalLens = <<num_runs, num_runs, num_runs, num_runs>>)

C7_Step ==
    (pc = "bench" /\ hpc' # hpc) =>
        /\ hpc = "Idle" => (hpc' = "WarmingUp" /\ locals' = new)
        /\ hpc = "WarmingUp" => (hpc' = "RunCompress" /\ run' = 0 /\ locals' = locals)
        /\ hpc = "RunCompress" => (hpc' = "RunDecompress" /\ run' = run)
        /\ hpc = "RunDecompress" =>
              (/\ run' = run + 1
               /\ hpc' = IF run + 1 < num_runs THEN "RunCompress" ELSE "Done"
               /\ Len(locals'.decompress_times) = run + 1)
        /\ hpc = "Done" =>
              (/\ hpc' = "Idle"
               /\ Len(results'[Codec].input_sizes) = Len(results[Codec].input_sizes) + num_runs
               /\ Len(results'[Codec].compressed_sizes)
                     = Len(results[Codec].compressed_sizes) + num_runs
               /\ Len(results'[Codec].compress_times)
                     = Len(results[Codec].compress_times) + num_runs
               /\ Len(results'[Codec].decompress_times)
                     = Len(results[Codec].decompress_times) + num_runs)

C7_HarnessSequence == [](C7_Positions) /\ [][C7_Step]_vars

C7_Witness ==
    /\ pc = "bench"
    /\ hpc = "Done"
    /\ Codec = "zstd_fastest"
    /\ num_runs = 2
    /\ LocalLens = <<2, 2, 2, 2>>
    /\ chunk_number = 2

\* C8: the summed totals of the aggregate do not depend on the order in which the
\* per-chunk results are merged: whatever the order, the totals of the aggregate plus
\* the totals of the parts not yet merged are the totals of the given parts; merging an
\* empty BenchmarkResults changes nothing.
Totals(r) ==
    <<Sum(r.input_sizes), Sum(r.compressed_sizes),
      SumSecs(r.compress_times), SumSecs(r.decompress_times)>>

AddTotals(t, u) == <<t[1] + u[1], t[2] + u[2], RatAdd(t[3], u[3]), RatAdd(t[4], u[4])>>

RECURSIVE TotalsOfAll(_)
TotalsOfAll(ps) ==
    IF ps = <<>> THEN <<0, 0, Zero, Zero>>
    ELSE AddTotals(Totals(Head(ps)), TotalsOfAll(Tail(ps)))

C8_TotalsKept ==
    pc = "merge" => AddTotals(Totals(Acc), TotalsOfAll(parts)) = TotalsOfAll(env.given)

C8_EmptyStep ==
    (/\ pc = "merge"
     /\ \E i \in DOMAIN parts : parts' = Remove(parts, i) /\ parts[i] = new)
    => results' = results

C8_MergeOrderIndependent == [](C8_TotalsKept) /\ [][C8_EmptyStep]_vars

C8_Witness ==
    /\ pc = "merge"
    /\ parts = <<>>
    /\ Len(env.given) = 3
    /\ \E i, j, k \in 1..3 :
          /\ env.given[i] = new
          /\ env.given[j] # new
          /\ env.given[k] # new
          /\ Totals(env.given[j]) # Totals(env.given[k])
    /\ Totals(Acc) = TotalsOfAll(env.given)
    /\ Acc.input_sizes # <<>>

\* the aggregate a printed row was computed from
AggregateOf(row) == results[CHOOSE c \in CodecSet : PrintName(c) = row.name]

NonEmpty(r) ==
    /\ r.input_sizes # <<>>
    /\ r.compressed_sizes # <<>>
    /\ r.compress_times # <<>>
    /\ r.decompress_times # <<>>

Printed(c) == \E i \in DOMAIN Codecs : Codecs[i] = c /\ i < print_idx

RowOf(c) == CHOOSE row \in Rows : row.name = PrintName(c)

\* C9: for every non-empty aggregate, the printed ratio is (sum of input sizes) / (sum
\* of compressed sizes) when the compressed sum is greater than 0 and 0 when it is 0;
\* it is never negative.
C9_Ratio ==
    pc \in {"print", "exited"} =>
        \A c \in CodecSet : (Printed(c) /\ NonEmpty(results[c])) =>
            /\ \E row \in Rows : row.name = PrintName(c)
            /\ LET q == RowOf(c).ratio
                   in_sum == Sum(results[c].input_sizes)
                   out_sum == Sum(results[c].compressed_sizes)
               IN  /\ q[1] >= 0 /\ q[2] > 0
                   /\ out_sum > 0 => q[1] * out_sum = q[2] * in_sum
                   /\ out_sum = 0 => q[1] = 0

C9_Witness ==
    /\ pc = "print"
    /\ \E c, d \in CodecSet :
          /\ Printed(c) /\ Printed(d)
          /\ NonEmpty(results[c]) /\ NonEmpty(results[d])
          /\ Sum(results[c].compressed_sizes) = 0
          /\ Sum(results[c].input_sizes) > 0
          /\ RowOf(c).ratio = Zero
          /\ RowOf(d).ratio = <<3, 2>>

\* C10: for every non-empty aggregate, each printed throughput is (total input bytes /
\* 1,048,576) / total seconds of the phase when that total is greater than 0 and
\* +infinity when it is 0 (also when the total input is 0); it is never negative and
\* never NaN.
ThroughputIs(t, in_sum, secs) ==
    /\ t # NaN
    /\ t[1] >= 0 /\ t[2] >= 0
    /\ RatPositive(secs) => (IsFinite(t) /\ RatMul(RatMul(t, secs), AsF64(MIB)) = AsF64(in_sum))
    /\ ~RatPositive(secs) => t = Infinity

C10_Throughput ==
    pc \in {"print", "exited"} =>
        \A c \in CodecSet : (Printed(c) /\ NonEmpty(results[c])) =>
            /\ \E row \in Rows : row.name = PrintName(c)
            /\ ThroughputIs(RowOf(c).compress, Sum(results[c].input_sizes),
                            SumSecs(results[c].compress_times))
            /\ ThroughputIs(RowOf(c).decompress, Sum(results[c].input_sizes),
                            SumSecs(results[c].decompress_times))

C10_Witness ==
    /\ pc = "print"
    /\ \E c \in CodecSet :
          /\ Printed(c)
          /\ NonEmpty(results[c])
          /\ Sum(results[c].input_sizes) = 0
          /\ SumSecs(results[c].compress_times) = Zero
          /\ RowOf(c).compress = Infinity
          /\ SumSecs(results[c].decompress_times) = <<1, 2>>
          /\ RowOf(c).decompress = Zero
    /\ \E d \in CodecSet :
          /\ Printed(d)
          /\ RowOf(d).compress = <<3, 524288>>

Warnings == { i \in DOMAIN stderr : stderr[i][1] = "Warning: No results to display for" }

Warned(c) == \E i \in Warnings : stderr[i] = <<"Warning: No results to display for", PrintName(c)>>

HasRow(c) == \E row \in Rows : row.name = PrintName(c)

\* C11: when a codec's aggregate is empty (any of its four vectors has no entry),
\* print_results writes the "no results" warning for it and no row, the program does not
\* crash, and every other codec still gets its row or its warning: after n calls there
\* are n rows and warnings together, and main ends with status 0.
C11_EmptyAggregateWarned ==
    pc \in {"print", "exited"} =>
        /\ exit_code \in {<<>>, <<0>>}
        /\ pc = "exited" => print_idx = NumCodecs + 1
        /\ Cardinality(Rows) + Cardinality(Warnings) = print_idx - 1
        /\ \A c \in CodecSet : Printed(c) =>
              IF NonEmpty(results[c])
              THEN HasRow(c) /\ ~Warned(c)
              ELSE Warned(c) /\ ~HasRow(c)

C11_Witness ==
    /\ pc = "exited"
    /\ exit_code = <<0>>
    /\ results["lz4_flex"].input_sizes # <<>>
    /\ results["lz4_flex"].compressed_sizes # <<>>
    /\ results["lz4_flex"].compress_times # <<>>
    /\ results["lz4_flex"].decompress_times = <<>>
    /\ Warned("lz4_flex") /\ ~HasRow("lz4_flex")
    /\ HasRow("libdeflate")
    /\ Cardinality(Warnings) = 6

\* the lengths of the chunks the loop has yielded so far, in order
IsChunkLine(l) == l[1] = "Processing chunk"
ChunkLens == LET ls == SelectSeq(stdout, IsChunkLine) IN [i \in DOMAIN ls |-> ls[i][3]]

\* C12: the chunk loop yields chunks that are non-empty and at most CHUNK_SIZE bytes,
\* only the final one may be shorter than CHUNK_SIZE, their lengths sum to the bytes of
\* the file, and the loop ends at the first zero-length read: no empty chunk is
\* benchmarked.
C12_ChunkSequence ==
    /\ \A i \in DOMAIN ChunkLens : ChunkLens[i] >= 1 /\ ChunkLens[i] <= CHUNK_SIZE
    /\ \A i \in DOMAIN ChunkLens : i < Len(ChunkLens) => ChunkLens[i] = CHUNK_SIZE
    /\ pc = "bench" => bytes_read > 0
    /\ pc \in {"read", "bench"} => Sum(ChunkLens) = file[1]
    /\ pc = "print" => Sum(ChunkLens) = env.file_len

\* the first line each benchmark_<codec> invocation prints, in the order printed
IsStartLine(l) ==
    \/ l[1] = "Preparing buffers"
    \/ l[1] = "Starting benchmark" /\ Len(l) = 2
Starts == SelectSeq(stdout, IsStartLine)

\* the number of samples of codec number j that have been merged
Merged(j) == Len(results[Codecs[j]].input_sizes)

\* C13: chunks are processed one after another and, within a chunk, the codecs one
\* after another in the fixed order, each result merged into its aggregate before the
\* next codec starts; every codec is invoked exactly once per chunk; no table row is
\* printed while chunks are still read or benchmarked.
C13_Sequential ==
    /\ pc = "read" =>
          /\ Rows = {}
          /\ Len(Starts) = NumCodecs * chunk_number
          /\ \A i \in DOMAIN Starts : Starts[i][2] = Codecs[((i - 1) % NumCodecs) + 1]
    /\ pc \in {"read", "print"} =>
          \A j \in 1..NumCodecs : Merged(j) = chunk_number * num_runs
    /\ pc = "bench" =>
          /\ chunk_number >= 1
          /\ codec_idx \in 1..NumCodecs
          /\ \A j \in 1..NumCodecs :
                Merged(j) = IF j < codec_idx THEN chunk_number * num_runs
                            ELSE (chunk_number - 1) * num_runs

C13_Step ==
    /\ codec_idx' # codec_idx =>
          \/ pc = "bench" /\ hpc = "Done" /\ codec_idx' = codec_idx + 1
          \/ pc = "read" /\ codec_idx = NumCodecs /\ codec_idx' = 1
    /\ chunk_number' # chunk_number =>
          /\ pc = "read" /\ pc' = "bench" /\ hpc' = "Idle"
          /\ chunk_number' = chunk_number + 1
    /\ (pc = "bench" /\ pc' = "read") => (codec_idx = NumCodecs /\ hpc = "Done")
    /\ (pc = "bench" /\ hpc = "Idle" /\ hpc' # hpc) =>
          /\ codec_idx' = codec_idx
          /\ Len(stdout') = Len(stdout) + 1
          /\ IsStartLine(stdout'[Len(stdout')])
          /\ stdout'[Len(stdout')][2] = Codec
    /\ (Len(stdout') > Len(stdout) /\ stdout'[Len(stdout')][1] = "row") =>
          (pc = "print" /\ file[1] = env.file_len)

C13_ChunksAndCodecsInOrder == [](C13_Sequential) /\ [][C13_Step]_vars

C13_Witness ==
    /\ pc = "print"
    /\ print_idx = 2
    /\ chunk_number = 2
    /\ Len(Starts) = 2 * NumCodecs
    /\ Cardinality(Rows) = 1

---------------------------------------------------------------------------
(* benchmark_lz4 called on its own with a slice longer than i32::MAX. main  *)
(* never passes such a slice (its chunks are at most CHUNK_SIZE), so this   *)
(* is the function taken by its signature, data: &[u8]. A length of that    *)
(* size is written <<q, r>> for q * CHUNK_SIZE + r bytes, r < CHUNK_SIZE.   *)

\* data.len() > i32::MAX for a length <<q, r>>: i32::MAX = 8 * CHUNK_SIZE - 1
ExceedsI32Max(w) == w[1] > I32_MAX \div CHUNK_SIZE

OversizedLens ==
    { <<q, r>> : q \in ((I32_MAX \div CHUNK_SIZE) + 1)..((I32_MAX \div CHUNK_SIZE) + 2),
                 r \in {0, 1} }

Lz4Index == CHOOSE i \in DOMAIN Codecs : Codecs[i] = "lz4"

InitLz4 ==
    /\ bytes_read \in OversizedLens
    /\ num_runs \in 1..2
    /\ env \in Envs
    /\ args = <<>>
    /\ pc = "bench"
    /\ arg_index = 1
    /\ filename = <<>>
    /\ exit_code = <<>>
    /\ stdout = <<>>
    /\ stderr = <<>>
    /\ original_size = <<>>
    /\ file = <<>>
    /\ chunk_number = 1
    /\ results = [c \in CodecSet |-> new]
    /\ codec_idx = Lz4Index
    /\ hpc = "Idle"
    /\ run = 0
    /\ locals = new
    /\ compress_time = Duration(0, 0)
    /\ compressed_len = 0
    /\ decompressed_len = 0
    /\ print_idx = 1
    /\ parts = <<>>

\* the warm-up call of lines 401-402 on an oversized slice: nothing before it looks at
\* data.len() except compress_bound, whose Err is replaced by data.len() (line 389);
\* lz4::block::compress_to_buffer returns Err("Compression input too long.") for a
\* source longer than i32::MAX, and .unwrap() panics
Lz4WarmUpOversized ==
    /\ pc = "bench"
    /\ hpc = "WarmingUp"
    /\ Codec = "lz4"
    /\ ExceedsI32Max(bytes_read)
    /\ UnwrapPanic(Codec, "warm-up compress")
    /\ UNCHANGED <<args, env, arg_index, filename, num_runs, stdout, results, print_idx, parts>>
    /\ UNCHANGED benchVars
    /\ UNCHANGED fileVars

NextLz4 == StartBenchmark \/ Lz4WarmUpOversized

SpecLz4 == InitLz4 /\ [][NextLz4]_vars

SingleChunkLen(c, len) == IF c = "memcpy" THEN MemcpyCompressedLen(len) ELSE LibCompressedLen(len)

\* C15 as stated: for every codec, the final sum of compressed sizes of a file of S bytes
\* processed in chunks is the sum that one single chunk of S bytes gives (once per run).
C15_ChunkedEqualsSingle ==
    (pc = "print" /\ env.file_len > 0) =>
        \A c \in CodecSet :
            Sum(results[c].compressed_sizes) = num_runs * SingleChunkLen(c, env.file_len)

\* C15 amended: for memcpy, whose compressed size is the chunk length, the final sum of
\* compressed sizes is num_runs * S however the S bytes were split into chunks.
C15_MemcpyChunkedEqualsSingle ==
    pc = "print" =>
        Sum(results["memcpy"].compressed_sizes) = num_runs * SingleChunkLen("memcpy", env.file_len)

C15_Witness ==
    /\ pc = "print"
    /\ chunk_number = 2
    /\ num_runs = 2
    /\ env.file_len = CHUNK_SIZE + 1
    /\ results["memcpy"].compressed_sizes = <<CHUNK_SIZE, CHUNK_SIZE, 1, 1>>
    /\ Sum(results["flate2"].compressed_sizes) # num_runs * SingleChunkLen("flate2", env.file_len)

FourLens(r) ==
    <<Len(r.input_sizes), Len(r.compressed_sizes), Len(r.compress_times),
      Len(r.decompress_times)>>

\* C16: every sample in a codec's results has compressed_size > 0 and is complete (the
\* four vectors have one entry each for it); a failed codec call leaves no sample of
\* that invocation in the results.
C16_SamplesCompleteAndPositive ==
    /\ \A c \in CodecSet :
          /\ \E n \in 0..Len(results[c].input_sizes) : FourLens(results[c]) = <<n, n, n, n>>
          /\ \A i \in DOMAIN results[c].compressed_sizes : results[c].compressed_sizes[i] > 0
    /\ (pc = "bench" /\ hpc = "Done") =>
          /\ FourLens(locals) = <<num_runs, num_runs, num_runs, num_runs>>
          /\ \A i \in DOMAIN locals.compressed_sizes : locals.compressed_sizes[i] > 0
    /\ (CodecFailed /\ original_size # <<>>) =>
          /\ pc = "exited"
          /\ FourLens(results[Codec]) = <<(chunk_number - 1) * num_runs, (chunk_number - 1) * num_runs,
                                          (chunk_number - 1) * num_runs, (chunk_number - 1) * num_runs>>

C16_Witness ==
    /\ CodecFailed
    /\ Codec = "snap"
    /\ chunk_number = 2
    /\ num_runs = 2
    /\ hpc = "RunDecompress"
    /\ run = 1
    /\ Len(locals.compressed_sizes) = 2
    /\ Len(locals.decompress_times) = 1
    /\ FourLens(results["snap"]) = <<2, 2, 2, 2>>
    /\ FourLens(results["flate2"]) = <<4, 4, 4, 4>>

IsPrefix(s, t) == Len(s) <= Len(t) /\ \A i \in DOMAIN s : s[i] = t[i]

\* C17: at every chunk boundary, after k chunks, each of the twelve aggregates has its
\* four vectors of the same length k * num_runs; the length never decreases and entries
\* already merged are never modified.
C17_AtBoundary ==
    pc \in {"read", "print"} =>
        \A c \in CodecSet :
            FourLens(results[c]) = <<chunk_number * num_runs, chunk_number * num_runs,
                                     chunk_number * num_runs, chunk_number * num_runs>>

C17_Step ==
    results' # results =>
        \A c \in CodecSet :
            /\ IsPrefix(results[c].input_sizes, results'[c].input_sizes)
            /\ IsPrefix(results[c].compressed_sizes, results'[c].compressed_sizes)
            /\ IsPrefix(results[c].compress_times, results'[c].compress_times)
            /\ IsPrefix(results[c].decompress_times, results'[c].decompress_times)

C17_AggregatesGrowInStep == [](C17_AtBoundary) /\ [][C17_Step]_vars

C17_Witness ==
    /\ pc = "read"
    /\ chunk_number = 2
    /\ num_runs = 2
    /\ \A c \in CodecSet : FourLens(results[c]) = <<4, 4, 4, 4>>
    /\ results["memcpy"].input_sizes = <<1, 1, CHUNK_SIZE - 1, CHUNK_SIZE - 1>>

\* C18: every chunk handed to benchmark_lz4 has at most CHUNK_SIZE = 2^28 bytes, which
\* is below 2^31 - 1, so `original_size as i32` is the length itself (no wrap to a
\* negative or truncated value) and the LZ4 input-size limit is not reached.
C18_Lz4ChunkFitsI32 ==
    (pc = "bench" /\ Codec = "lz4") =>
        /\ bytes_read >= 1
        /\ bytes_read <= CHUNK_SIZE
        /\ CHUNK_SIZE = 268435456
        /\ CHUNK_SIZE < I32_MAX
        /\ as_i32(bytes_read) = bytes_read
        /\ as_i32(bytes_read) > 0

C18_Witness ==
    /\ pc = "bench"
    /\ Codec = "lz4"
    /\ hpc = "RunDecompress"
    /\ bytes_read = CHUNK_SIZE
    /\ env.file_len > CHUNK_SIZE
    /\ as_i32(bytes_read) = 268435456

====
